---- MODULE Spec2Model ----
(***************************************************************************)
(* Model of the "Create Image Mask from Selection" add-on (src/main.py).   *)
(*                                                                         *)
(* The state is the part of the host's data the operator reads or writes:  *)
(* the interaction mode, the render engine, the mesh (edit-mode copy and   *)
(* datablock copy of the per-polygon flags, colour layers, material        *)
(* slots), the material and image databases, and the operator's locals     *)
(* while the bake call is in progress.                                     *)
(*                                                                         *)
(* Polygon p of the code (0-based) is position p+1 of the sequences here;  *)
(* material-slot indices keep the code's 0-based values.                   *)
(***************************************************************************)
EXTENDS Naturals, Sequences, FiniteSets

\* ---------------------------------------------------------------- bounds
NumPolygons == 2
MaxRuns == 2
MaxUserOps == 2

\* ------------------------------------------------------ program constants
VCOL_LAYER_NAME == "temp_mask_vcol"
BAKE_MATERIAL_NAME == "temp_mask_bake_material"
UV_ERROR == "Object has no UV map. Please unwrap the mesh first."
SELECTION_ERROR == "No faces are selected."
BAKING_INFO == "Baking mask to 'FaceMask'..."
SUCCESS_INFO == "Successfully created mask image 'FaceMask'."
image_name == "FaceMask"
image_size == 4096

Polygons == 1..NumPolygons
Engines == {"BLENDER_EEVEE", "CYCLES"}
NoMaterial == "None"
UserMaterial == "Material"
UserVcol == "Col"

VARIABLES
  mode,               \* context.mode: "EDIT_MESH" or "OBJECT"
  engine,             \* context.scene.render.engine
  uv_layers,          \* whether mesh.uv_layers is non-empty
  verts,              \* len(p.vertices) of every polygon
  bm_select,          \* the edit mesh's per-polygon selection
  bm_material_index,  \* the edit mesh's per-polygon material index
  select,             \* mesh.polygons[p].select (the datablock)
  material_index,     \* mesh.polygons[p].material_index (the datablock)
  vertex_colors,      \* mesh.vertex_colors: layer name -> per-loop colours
  mesh_materials,     \* obj.data.materials: the material slots
  materials,          \* bpy.data.materials: material name -> node tree
  images,             \* bpy.data.images: image name -> image
  pc,                 \* "idle", or "bake" while bpy.ops.object.bake runs
  op,                 \* the locals of execute that live across the bake
  result,             \* what the last execute returned
  report,             \* the messages the last execute reported
  snapshot_log,       \* the state captured by the last execute, in order
  restore_log,        \* the state restored by the last execute, in order
  pre,                \* the host state when the last execute started (after
                      \* a user edit: the state that edit left)
  chain,              \* where a failed-run / re-enter / second-run sequence is
  failed_run,         \* the last failed run: the slot index it assigned and the
                      \* engine and material indices that held before it
  runs,               \* executes started
  user_ops            \* user edits made

vars == <<mode, engine, uv_layers, verts, bm_select, bm_material_index,
          select, material_index, vertex_colors, mesh_materials,
          materials, images, pc, op, result, report, snapshot_log,
          restore_log, pre, chain, failed_run, runs, user_ops>>

\* The host state as one record, so that the steps of execute compose.
World ==
  [mode |-> mode, engine |-> engine, uv_layers |-> uv_layers, verts |-> verts,
   bm_select |-> bm_select, bm_material_index |-> bm_material_index,
   select |-> select, material_index |-> material_index,
   vertex_colors |-> vertex_colors, mesh_materials |-> mesh_materials,
   materials |-> materials, images |-> images]

Commit(w) ==
  /\ mode' = w.mode
  /\ engine' = w.engine
  /\ uv_layers' = w.uv_layers
  /\ verts' = w.verts
  /\ bm_select' = w.bm_select
  /\ bm_material_index' = w.bm_material_index
  /\ select' = w.select
  /\ material_index' = w.material_index
  /\ vertex_colors' = w.vertex_colors
  /\ mesh_materials' = w.mesh_materials
  /\ materials' = w.materials
  /\ images' = w.images

\* ------------------------------------------------------- host collections
RECURSIVE Sum(_, _)
Sum(s, n) == IF n = 0 THEN 0 ELSE s[n] + Sum(s, n - 1)

Suffixes == <<".001", ".002", ".003", ".004", ".005", ".006">>

\* The name the host gives a new datablock: the requested one, or the first
\* numbered variant of it that is free.
UniqueName(name, taken) ==
  IF name \notin taken THEN name
  ELSE LET free == {k \in 1..Len(Suffixes) : (name \o Suffixes[k]) \notin taken}
       IN name \o Suffixes[CHOOSE k \in free : \A j \in free : k <= j]

Put(f, k, v) == [x \in DOMAIN f \cup {k} |-> IF x = k THEN v ELSE f[x]]
Drop(f, k) == [x \in DOMAIN f \ {k} |-> f[x]]

RemoveAt(s, i) == [k \in 1..(Len(s) - 1) |-> IF k < i THEN s[k] ELSE s[k + 1]]

\* ------------------------------------------------------------ the node tree
Node(type, layer, img) == [type |-> type, layer_name |-> layer, image |-> img]
Link(fn, fs, tn, ts) ==
  [from_node |-> fn, from_socket |-> fs, to_node |-> tn, to_socket |-> ts]
EmptyTree == [nodes |-> <<>>, links |-> {}, active |-> 0]

\* bake_material.use_nodes = True: the host fills in its default tree.
DefaultTree ==
  [nodes |-> <<Node("ShaderNodeBsdfPrincipled", "", ""),
               Node("ShaderNodeOutputMaterial", "", "")>>,
   links |-> {Link(1, "BSDF", 2, "Surface")},
   active |-> 0]

\* Variant: the default nodes are kept.
nodes_clear_keep(tree) == tree
nodes_clear(tree) == EmptyTree

nodes_new(tree, type) == [tree EXCEPT !.nodes = Append(@, Node(type, "", ""))]
links_new(tree, l) == [tree EXCEPT !.links = @ \cup {l}]


\* ------------------------------------------------------ host mode switches
\* mesh.update_from_editmode(): in edit mode the edit mesh is written into
\* the datablock; outside edit mode there is nothing to write.
update_from_editmode(w) ==
  IF w.mode = "EDIT_MESH"
  THEN [w EXCEPT !.select = w.bm_select,
                 !.material_index = w.bm_material_index]
  ELSE w

\* bpy.ops.object.mode_set(mode=m): leaving edit mode writes the edit mesh
\* into the datablock, entering it builds the edit mesh from the datablock.
mode_set(w, m) ==
  CASE m = "OBJECT" /\ w.mode = "EDIT_MESH" ->
         [update_from_editmode(w) EXCEPT !.mode = "OBJECT"]
    [] m = "EDIT" /\ w.mode = "OBJECT" ->
         [w EXCEPT !.mode = "EDIT_MESH",
                   !.bm_select = w.select,
                   !.bm_material_index = w.material_index]
    [] OTHER -> w

\* ------------------------------------------------------- execute's locals
NoLocals ==
  [num_polygons |-> 0, polygon_selection |-> <<>>,
   selected_face_indices |-> {}, original_mode |-> "",
   original_engine |-> "", original_material_indices |-> <<>>,
   vc_layer |-> "", bake_material |-> "",
   bake_material_slot_index |-> 0, image |-> ""]

NoFailedRun == [slot |-> 0, engine |-> "", material_index |-> <<>>]

\* A frame is execute in progress: the host state, the locals, what was
\* captured and restored so far, and the messages reported.
Frame(w) == [w |-> w, l |-> NoLocals, snap |-> <<>>, rest |-> <<>>,
             report |-> <<>>]

Report(f, msg) == [f EXCEPT !.report = Append(@, msg)]

\* ------------------------------------------------------------- validation
\* Variant: the UV-map validation left out.
HasUVLayers_skipped(w) == TRUE
HasUVLayers(w) == w.uv_layers

SyncFromEditMode(f) == [f EXCEPT !.w = update_from_editmode(f.w)]

ReadSelection(f) ==
  [f EXCEPT !.l.num_polygons = Len(f.w.select),
            !.l.polygon_selection = f.w.select]

\* Variant: the selection validation left out.
AnySelected_skipped(sel) == TRUE
AnySelected(sel) == \E i \in 1..Len(sel) : sel[i]

\* ----------------------------------------------------------- preservation
SnapshotSelection(f) ==
  [f EXCEPT !.l.selected_face_indices =
              {i - 1 : i \in {j \in 1..Len(f.l.polygon_selection) :
                                f.l.polygon_selection[j]}},
            !.snap = Append(@, "select")]
SnapshotMode(f) ==
  [f EXCEPT !.l.original_mode = f.w.mode, !.snap = Append(@, "mode")]
SnapshotEngine(f) ==
  [f EXCEPT !.l.original_engine = f.w.engine, !.snap = Append(@, "engine")]
SnapshotMaterialIndices(f) ==
  [f EXCEPT !.l.original_material_indices = f.w.material_index,
            !.snap = Append(@, "material_index")]

Preserve(f) ==
  SnapshotMaterialIndices(SnapshotEngine(SnapshotMode(SnapshotSelection(f))))

EnterObjectMode(f) == [f EXCEPT !.w = mode_set(f.w, "OBJECT")]

\* ------------------------------------------------------ vertex colour setup
\* Variant: a stale layer of the reserved name is kept.
RemoveStaleVcol_skipped(w) == w
RemoveStaleVcol(w) ==
  IF VCOL_LAYER_NAME \in DOMAIN w.vertex_colors
  THEN [w EXCEPT !.vertex_colors = Drop(@, VCOL_LAYER_NAME)]
  ELSE w

RECURSIVE np_repeat(_, _)
\* np.repeat(a, counts): a[i] repeated counts[i] times, in order.
np_repeat(a, counts) ==
  IF a = <<>> THEN <<>>
  ELSE [k \in 1..Head(counts) |-> Head(a)] \o np_repeat(Tail(a), Tail(counts))

num_loops(w) == Sum(w.verts, Len(w.verts))

\* Variant: the alpha column is not set on unselected loops.
SelectionColors_rgba(sel, counts, n) ==
  LET poly_colors == np_repeat(sel, counts)
  IN [k \in 1..n |-> IF poly_colors[k] THEN <<1, 1, 1, 1>> ELSE <<0, 0, 0, 0>>]
\* colors = zeros((num_loops, 4)); colors[:, 3] = 1; colors[poly_colors, :3] = 1
SelectionColors(sel, counts, n) ==
  LET poly_colors == np_repeat(sel, counts)
      zeros == [k \in 1..n |-> <<0, 0, 0, 0>>]
      alpha == [k \in 1..n |-> [zeros[k] EXCEPT ![4] = 1]]
  IN [k \in 1..n |->
        IF poly_colors[k] THEN <<1, 1, 1, alpha[k][4]>> ELSE alpha[k]]

VertexColorSetup(f) ==
  LET w1 == RemoveStaleVcol(f.w)
      name == UniqueName(VCOL_LAYER_NAME, DOMAIN w1.vertex_colors)
      colors == SelectionColors(f.l.polygon_selection, w1.verts, num_loops(w1))
  IN [f EXCEPT !.w = [w1 EXCEPT !.vertex_colors = Put(@, name, colors)],
               !.l.vc_layer = name]

\* ------------------------------------------------------------ material setup
\* bpy.data.materials.remove(m): the material leaves the database and every
\* slot that held it is left empty.
materials_remove(w, name) ==
  [w EXCEPT !.materials = Drop(@, name),
            !.mesh_materials =
               [i \in 1..Len(@) |-> IF @[i] = name THEN NoMaterial ELSE @[i]]]

RemoveStaleMaterial(w) ==
  IF BAKE_MATERIAL_NAME \in DOMAIN w.materials
  THEN materials_remove(w, BAKE_MATERIAL_NAME)
  ELSE w

\* materials.new gives a material without nodes; use_nodes = True fills in
\* the host's default tree; nodes.clear() empties it; then the three shading
\* nodes and their two links are added.
BuildShaderTree ==
  LET t0 == nodes_clear(DefaultTree)
      t1 == nodes_new(t0, "ShaderNodeOutputMaterial")
      output_node == Len(t1.nodes)
      t2 == nodes_new(t1, "ShaderNodeEmission")
      emission_node == Len(t2.nodes)
      t3 == nodes_new(t2, "ShaderNodeVertexColor")
      vcol_node == Len(t3.nodes)
      t4 == [t3 EXCEPT !.nodes[vcol_node].layer_name = VCOL_LAYER_NAME]
      t5 == links_new(t4, Link(vcol_node, "Color", emission_node, "Color"))
  IN links_new(t5, Link(emission_node, "Emission", output_node, "Surface"))

MaterialSetup(f) ==
  LET w1 == RemoveStaleMaterial(f.w)
      name == UniqueName(BAKE_MATERIAL_NAME, DOMAIN w1.materials)
      slots == Append(w1.mesh_materials, name)
      slot_index == Len(slots) - 1
  IN [f EXCEPT !.w = [w1 EXCEPT !.materials = Put(@, name, BuildShaderTree),
                                !.mesh_materials = slots,
                                !.material_index =
                                   [p \in 1..Len(@) |-> slot_index]],
               !.l.bake_material = name,
               !.l.bake_material_slot_index = slot_index]

\* ------------------------------------------------------- image and bake setup
NewImage ==
  [width |-> image_size, height |-> image_size, alpha |-> FALSE,
   colorspace |-> "Non-Color", baked |-> FALSE]

\* Variant: the engine is left as it is.
SetRenderEngineCycles_skipped(w) == w
SetRenderEngineCycles(w) == [w EXCEPT !.engine = "CYCLES"]

ImageSetup(f) ==
  LET name == UniqueName(image_name, DOMAIN f.w.images)
      t0 == f.w.materials[f.l.bake_material]
      t1 == nodes_new(t0, "ShaderNodeTexImage")
      image_node == Len(t1.nodes)
      t2 == [t1 EXCEPT !.nodes[image_node].image = name, !.active = image_node]
      w1 == [f.w EXCEPT !.images = Put(@, name, NewImage),
                        !.materials[f.l.bake_material] = t2]
  IN Report([f EXCEPT !.w = SetRenderEngineCycles(w1), !.l.image = name],
            BAKING_INFO)

\* Lines 88-147: everything between the validation and the bake call.
PrepareBake(f) ==
  ImageSetup(MaterialSetup(VertexColorSetup(EnterObjectMode(Preserve(f)))))


\* -------------------------------------------------------------------- bake
\* bpy.ops.object.bake(type='EMIT') returning normally: the image of the
\* active image-texture node of the object's material is written.
Bake(f) ==
  LET tree == f.w.materials[f.l.bake_material]
      target == tree.nodes[tree.active].image
  IN [f EXCEPT !.w.images[target].baked = TRUE]

\* ----------------------------------------------------------------- cleanup
RemoveVcolLayer(f) ==
  [f EXCEPT !.w.vertex_colors = Drop(@, f.l.vc_layer)]

\* Variant: the material indices are not put back.
RestoreMaterialIndices_skipped(f) == f
RestoreMaterialIndices(f) ==
  [f EXCEPT !.w.material_index =
              [i \in 1..Len(@) |-> f.l.original_material_indices[i]],
            !.rest = Append(@, "material_index")]

\* obj.data.materials.pop(index=bake_material_slot_index): the popped slot
\* is the last one, so no polygon's index is above it.
PopBakeSlot(f) ==
  [f EXCEPT !.w.mesh_materials = RemoveAt(@, f.l.bake_material_slot_index + 1)]

\* Variant: the temporary material is not removed.
RemoveBakeMaterial_skipped(f) == f
RemoveBakeMaterial(f) ==
  [f EXCEPT !.w = materials_remove(f.w, f.l.bake_material)]

RestoreEngine(f) ==
  [f EXCEPT !.w.engine = f.l.original_engine, !.rest = Append(@, "engine")]

RestoreSelection(f) ==
  [f EXCEPT !.w.select =
              [i \in 1..f.l.num_polygons |->
                 (i - 1) \in f.l.selected_face_indices],
            !.rest = Append(@, "select")]

final_mode(original_mode) ==
  IF original_mode = "EDIT_MESH" THEN "EDIT" ELSE original_mode

RestoreMode(f) ==
  [f EXCEPT !.w = mode_set(f.w, final_mode(f.l.original_mode)),
            !.rest = Append(@, "mode")]

\* Variant: the mode is restored first.
Cleanup_modeFirst(f) ==
  Report(RestoreSelection(RestoreEngine(RemoveBakeMaterial(PopBakeSlot(
    RestoreMaterialIndices(RemoveVcolLayer(RestoreMode(f))))))), SUCCESS_INFO)
\* Lines 156-175, in the order of the code.
Cleanup(f) ==
  Report(RestoreMode(RestoreSelection(RestoreEngine(RemoveBakeMaterial(
    PopBakeSlot(RestoreMaterialIndices(RemoveVcolLayer(f))))))), SUCCESS_INFO)

\* Variant: the cleanup runs on the exception too.
OnBakeException_rollback(f) == Cleanup(f)
\* The bake call sits in no try block: an exception leaves execute at once.
OnBakeException(f) == f

\* ----------------------------------------------------------------- execute
\* execute up to its first exit: a cancelled return, or the bake call.
ExecuteToBake(w) ==
  IF ~HasUVLayers(w)
  THEN [exit |-> "CANCELLED", f |-> Report(Frame(w), UV_ERROR)]
  ELSE LET f1 == ReadSelection(SyncFromEditMode(Frame(w)))
       IN IF ~AnySelected(f1.l.polygon_selection)
          THEN [exit |-> "CANCELLED", f |-> Report(f1, SELECTION_ERROR)]
          ELSE [exit |-> "BAKE", f |-> PrepareBake(f1)]

\* MASK_OT_create_image_mask.poll
poll == mode = "EDIT_MESH"

Returned(f, res) ==
  /\ Commit(f.w)
  /\ pc' = "idle"
  /\ op' = NoLocals
  /\ result' = res
  /\ report' = f.report
  /\ snapshot_log' = f.snap
  /\ restore_log' = f.rest

CurrentFrame ==
  [w |-> World, l |-> op, snap |-> snapshot_log, rest |-> restore_log,
   report |-> report]

\* execute returning {'CANCELLED'} from one of its two validations.
ExecuteCancelled ==
  /\ pc = "idle" /\ poll /\ runs < MaxRuns
  /\ LET e == ExecuteToBake(World)
     IN /\ e.exit = "CANCELLED"
        /\ Returned(e.f, "CANCELLED")
  /\ pre' = World
  /\ runs' = runs + 1
  /\ chain' = "none"
  /\ failed_run' = NoFailedRun
  /\ UNCHANGED user_ops

\* execute from its start to the call of bpy.ops.object.bake.
ExecuteStartBake ==
  /\ pc = "idle" /\ poll /\ runs < MaxRuns
  /\ LET e == ExecuteToBake(World)
     IN /\ e.exit = "BAKE"
        /\ Commit(e.f.w)
        /\ op' = e.f.l
        /\ report' = e.f.report
        /\ snapshot_log' = e.f.snap
        /\ restore_log' = e.f.rest
  /\ pc' = "bake"
  /\ result' = "RUNNING"
  /\ pre' = World
  /\ runs' = runs + 1
  /\ chain' = IF chain = "reentered" THEN "second" ELSE "none"
  /\ failed_run' = IF chain = "reentered" THEN failed_run ELSE NoFailedRun
  /\ UNCHANGED user_ops

\* The bake returns and execute runs to its {'FINISHED'}.
BakeFinished ==
  /\ pc = "bake"
  /\ Returned(Cleanup(Bake(CurrentFrame)), "FINISHED")
  /\ chain' = IF chain = "second" THEN "second_done" ELSE "none"
  /\ failed_run' = IF chain = "second" THEN failed_run ELSE NoFailedRun
  /\ UNCHANGED <<pre, runs, user_ops>>

\* The bake raises: the exception ends execute where it stands.
BakeRaised ==
  /\ pc = "bake"
  /\ Returned(OnBakeException(CurrentFrame), "EXCEPTION")
  /\ chain' = "failed"
  /\ failed_run' = [slot |-> op.bake_material_slot_index, engine |-> pre.engine,
                    material_index |-> pre.bm_material_index]
  /\ UNCHANGED <<pre, runs, user_ops>>

\* ------------------------------------------------------------------ the user
\* A user edit ends the observation of the last run: its result, messages
\* and logs are dropped.
UserEdit(w) ==
  /\ Commit(w)
  /\ pc' = "idle" /\ op' = op
  /\ result' = "NONE" /\ report' = <<>>
  /\ snapshot_log' = <<>> /\ restore_log' = <<>>
  /\ pre' = w
  /\ UNCHANGED runs

\* The user clicks a face in edit mode: only the edit mesh changes.
UserSelectFace(p) ==
  /\ pc = "idle" /\ mode = "EDIT_MESH" /\ user_ops < MaxUserOps
  /\ UserEdit([World EXCEPT !.bm_select[p] = ~@])
  /\ user_ops' = user_ops + 1
  /\ chain' = "none"
  /\ failed_run' = NoFailedRun

\* The user assigns a material slot to a selected face in edit mode.
UserAssignMaterial(p) ==
  /\ pc = "idle" /\ mode = "EDIT_MESH" /\ user_ops < MaxUserOps
  /\ bm_select[p]
  /\ \E i \in {k \in 0..Len(mesh_materials) : k < Len(mesh_materials)} :
       /\ bm_material_index[p] # i
       /\ UserEdit([World EXCEPT !.bm_material_index[p] = i])
  /\ user_ops' = user_ops + 1
  /\ chain' = "none"
  /\ failed_run' = NoFailedRun

\* The user leaves or enters edit mode.
UserToggleEditMode ==
  /\ pc = "idle"
  /\ UserEdit(mode_set(World, IF mode = "EDIT_MESH" THEN "OBJECT" ELSE "EDIT"))
  /\ chain' = IF chain = "failed" /\ mode = "OBJECT" THEN "reentered" ELSE "none"
  /\ failed_run' = IF chain = "failed" /\ mode = "OBJECT" THEN failed_run ELSE NoFailedRun
  /\ UNCHANGED user_ops

\* ------------------------------------------------------------ specification
WhiteLayer(counts) == [k \in 1..Sum(counts, Len(counts)) |-> <<1, 1, 1, 1>>]

\* The state when the panel first offers the operator: the object is a mesh
\* in edit mode, the edit mesh was just built from the datablock, and no
\* execute has run.
HostInit(topologies, uvs, slots) ==
  /\ mode = "EDIT_MESH"
  /\ engine \in Engines
  /\ uv_layers \in uvs
  /\ verts \in topologies
  /\ bm_select \in [Polygons -> BOOLEAN]
  /\ select = bm_select
  /\ bm_material_index = [p \in Polygons |-> 0]
  /\ material_index = bm_material_index
  /\ vertex_colors = [n \in {UserVcol} |-> WhiteLayer(verts)]
  /\ mesh_materials \in slots
  /\ materials = [n \in {UserMaterial} |-> DefaultTree]
  /\ images = [n \in {} |-> NewImage]
  /\ pc = "idle"
  /\ op = NoLocals
  /\ result = "NONE"
  /\ report = <<>>
  /\ snapshot_log = <<>>
  /\ restore_log = <<>>
  /\ pre = World
  /\ chain = "none"
  /\ failed_run = NoFailedRun
  /\ runs = 0
  /\ user_ops = 0

\* One quad and triangles; with or without a UV map; with or without slots.
Init ==
  HostInit({[p \in Polygons |-> IF p = 1 THEN 4 ELSE 3]}, BOOLEAN,
           {<<>>, <<UserMaterial, NoMaterial>>})

Next ==
  \/ ExecuteCancelled
  \/ ExecuteStartBake
  \/ BakeFinished
  \/ BakeRaised
  \/ \E p \in Polygons : UserSelectFace(p)
  \/ \E p \in Polygons : UserAssignMaterial(p)
  \/ UserToggleEditMode

Spec == Init /\ [][Next]_vars


\* The operator alone, on every topology of triangles, quads and pentagons
\* and every selection: the specification of the selection-to-colour
\* encoding.
InitColors == HostInit([Polygons -> {3, 4, 5}], {TRUE}, {<<>>})

NextColors ==
  \/ ExecuteCancelled
  \/ ExecuteStartBake
  \/ BakeFinished
  \/ BakeRaised

SpecColors == InitColors /\ [][NextColors]_vars


\* ------------------------------------------------------------------ claims
\* result # "NONE" holds from the start of an execute until the next user
\* edit; pre is then the host state in which that execute started.

NoneSelected(sel) == \A p \in 1..Len(sel) : ~sel[p]

\* C1: a mesh with no UV map, whatever its selection: execute reports the
\* UV-map error, returns cancelled, and leaves the whole host state as it
\* was (no synchronisation, no mode switch, nothing created or removed, no
\* flag or index changed), and no snapshot or restore step runs.
C1_NoUVMapCancels ==
  (result # "NONE" /\ ~pre.uv_layers) =>
    /\ pc = "idle"
    /\ result = "CANCELLED"
    /\ report = <<UV_ERROR>>
    /\ World = pre
    /\ snapshot_log = <<>>
    /\ restore_log = <<>>

\* Reached: a cancelled run on a mesh without UV map whose datablock is
\* behind the edit mesh and which has a selected face.
C1_Witness ==
  /\ result = "CANCELLED"
  /\ ~pre.uv_layers
  /\ pre.select # pre.bm_select
  /\ \E p \in Polygons : pre.bm_select[p]

\* C2 as stated: a mesh with a UV map and no selected polygon: execute
\* reports the selection error, returns cancelled, and nothing between its
\* start and its return changed the mesh, the mode, the engine, the
\* materials or the images.
C2_NothingChanges ==
  (result # "NONE" /\ pre.uv_layers /\ NoneSelected(pre.bm_select)) =>
    /\ result = "CANCELLED"
    /\ report = <<SELECTION_ERROR>>
    /\ World = pre

\* C2 as amended: the same run reports the selection error (not the UV-map
\* error), returns cancelled, runs no snapshot or restore step, and leaves
\* mode, engine, colour layers, slots, materials, images and the edit mesh
\* as they were; the datablock's per-polygon selection flags and material
\* indices are the edit mesh's, written by update_from_editmode.
C2_OnlySynchronises ==
  (result # "NONE" /\ pre.uv_layers /\ NoneSelected(pre.bm_select)) =>
    /\ pc = "idle"
    /\ result = "CANCELLED"
    /\ report = <<SELECTION_ERROR>>
    /\ SELECTION_ERROR # UV_ERROR
    /\ World = [pre EXCEPT !.select = pre.bm_select,
                           !.material_index = pre.bm_material_index]
    /\ snapshot_log = <<>>
    /\ restore_log = <<>>

\* Reached: a cancelled run whose datablock still held a selected face that
\* the user had deselected in edit mode.
C2_Witness ==
  /\ result = "CANCELLED"
  /\ pre.uv_layers
  /\ NoneSelected(pre.bm_select)
  /\ ~NoneSelected(pre.select)

\* C3: after a successful run every polygon's selection flag and material
\* index (as the user had them in edit mode before the run, in the edit
\* mesh and in the datablock alike), the render engine and the interaction
\* mode equal their pre-run values.
C3_RoundTrip ==
  result = "FINISHED" =>
    /\ bm_select = pre.bm_select
    /\ bm_material_index = pre.bm_material_index
    /\ select = pre.bm_select
    /\ material_index = pre.bm_material_index
    /\ engine = pre.engine
    /\ mode = pre.mode

\* Reached: a successful run from a state with a selected and an unselected
\* face, faces on different slots, and an engine other than CYCLES.
C3_Witness ==
  /\ result = "FINISHED"
  /\ pre.engine = "BLENDER_EEVEE"
  /\ \E p, q \in Polygons : pre.bm_select[p] /\ ~pre.bm_select[q]
  /\ \E p, q \in Polygons : pre.bm_material_index[p] # pre.bm_material_index[q]

\* The loops of polygon p are the verts[p] positions after those of the
\* polygons before it.
LoopStart(p) == Sum(verts, p - 1)
PolygonOfLoop(k) ==
  CHOOSE p \in Polygons : LoopStart(p) < k /\ k <= LoopStart(p) + verts[p]

\* C4: when the bake is called, the temporary colour layer holds one RGBA
\* entry per loop; the entry of a loop of a selected polygon is (1,1,1,1)
\* and that of a loop of an unselected polygon is (0,0,0,1).
C4_SelectionToColour ==
  pc = "bake" =>
    LET buffer == vertex_colors[op.vc_layer]
    IN /\ Len(buffer) = Sum(verts, NumPolygons)
       /\ \A k \in 1..Len(buffer) :
            buffer[k] = IF pre.bm_select[PolygonOfLoop(k)]
                        THEN <<1, 1, 1, 1>>
                        ELSE <<0, 0, 0, 1>>

\* Reached: the bake of a mesh whose polygons differ in size, one of them
\* selected and one not.
C4_Witness ==
  /\ pc = "bake"
  /\ \E p, q \in Polygons : verts[p] # verts[q]
  /\ \E p, q \in Polygons : pre.bm_select[p] /\ ~pre.bm_select[q]

IsReserved(n, name) == n = name \/ \E k \in 1..Len(Suffixes) : n = name \o Suffixes[k]

\* C5: in every run that reaches the bake, also one that follows a finished
\* or a bake-failed run, the temporary colour layer and the temporary
\* material were created under exactly the reserved names (none of that
\* name existed at the creation), and exactly one of each exists.
C5_ReservedNamesFree ==
  pc = "bake" =>
    /\ op.vc_layer = VCOL_LAYER_NAME
    /\ op.bake_material = BAKE_MATERIAL_NAME
    /\ Cardinality({n \in DOMAIN vertex_colors :
                      IsReserved(n, VCOL_LAYER_NAME)}) = 1
    /\ Cardinality({n \in DOMAIN materials :
                      IsReserved(n, BAKE_MATERIAL_NAME)}) = 1

\* Reached: the bake of a run that started with the colour layer and the
\* material of a bake-failed run still present.
C5_Witness ==
  /\ pc = "bake"
  /\ VCOL_LAYER_NAME \in DOMAIN pre.vertex_colors
  /\ BAKE_MATERIAL_NAME \in DOMAIN pre.materials

OneImageAdded ==
  /\ Cardinality(DOMAIN images) = Cardinality(DOMAIN pre.images) + 1
  /\ DOMAIN pre.images \subseteq DOMAIN images
  /\ \A n \in DOMAIN pre.images : images[n] = pre.images[n]

\* C6 as stated: after a successful run the colour layers, the materials
\* and the material slots are the same as before the run, and the images
\* are the pre-run images plus exactly one.
C6_SameAsBefore ==
  result = "FINISHED" =>
    /\ vertex_colors = pre.vertex_colors
    /\ materials = pre.materials
    /\ mesh_materials = pre.mesh_materials
    /\ OneImageAdded

\* C6 as amended: after a successful run the colour layers and materials
\* are the pre-run ones without any of the reserved name, the slots are the
\* pre-run slots with every slot that held a material of the reserved name
\* left empty, and the images are the pre-run images plus exactly one.
C6_OnlyImageAdded ==
  result = "FINISHED" =>
    /\ DOMAIN vertex_colors = DOMAIN pre.vertex_colors \ {VCOL_LAYER_NAME}
    /\ \A n \in DOMAIN vertex_colors : vertex_colors[n] = pre.vertex_colors[n]
    /\ DOMAIN materials = DOMAIN pre.materials \ {BAKE_MATERIAL_NAME}
    /\ \A n \in DOMAIN materials : materials[n] = pre.materials[n]
    /\ Len(mesh_materials) = Len(pre.mesh_materials)
    /\ \A i \in 1..Len(mesh_materials) :
         mesh_materials[i] = IF pre.mesh_materials[i] = BAKE_MATERIAL_NAME
                             THEN NoMaterial
                             ELSE pre.mesh_materials[i]
    /\ OneImageAdded

\* Reached: a successful run that started with the leftovers of a failed one.
C6_Witness ==
  /\ result = "FINISHED"
  /\ VCOL_LAYER_NAME \in DOMAIN pre.vertex_colors
  /\ BAKE_MATERIAL_NAME \in DOMAIN pre.materials
  /\ \E i \in 1..Len(pre.mesh_materials) :
       pre.mesh_materials[i] = BAKE_MATERIAL_NAME

\* C7 as stated: on the success path the four pieces of state are restored
\* in the order in which they were captured; a cancelled run restores
\* nothing.
C7_RestoredInCaptureOrder ==
  /\ result = "FINISHED" => (Len(restore_log) = 4 /\ restore_log = snapshot_log)
  /\ result = "CANCELLED" => restore_log = <<>>

\* C7 as amended: on the success path the four pieces are captured in the
\* order selection, mode, engine, material indices and each is restored
\* once, in the order material indices, engine, selection, mode; a
\* cancelled run restores nothing.
C7_RestoreOrder ==
  /\ result = "FINISHED" =>
       /\ snapshot_log = <<"select", "mode", "engine", "material_index">>
       /\ restore_log = <<"material_index", "engine", "select", "mode">>
  /\ result = "CANCELLED" => restore_log = <<>>

\* Reached: a finished run that restored all four.
C7_Witness == result = "FINISHED" /\ Len(restore_log) = 4 /\ Len(snapshot_log) = 4

NodesOfType(tree, type) == {i \in 1..Len(tree.nodes) : tree.nodes[i].type = type}

\* C8: when the bake is called the temporary material's tree has exactly
\* four nodes (surface output, emission, vertex colour reading the
\* temporary layer, image texture holding the new image) and exactly two
\* links (vertex colour to emission, emission to output); the image node is
\* the active node and no link touches it.
C8_NodeGraphAtBake ==
  pc = "bake" =>
    LET tree == materials[op.bake_material]
    IN /\ Len(tree.nodes) = 4
       /\ \A t \in {"ShaderNodeOutputMaterial", "ShaderNodeEmission",
                    "ShaderNodeVertexColor", "ShaderNodeTexImage"} :
            Cardinality(NodesOfType(tree, t)) = 1
       /\ \A i \in NodesOfType(tree, "ShaderNodeVertexColor") :
            /\ tree.nodes[i].layer_name = op.vc_layer
            /\ op.vc_layer \in DOMAIN vertex_colors
       /\ \A i \in NodesOfType(tree, "ShaderNodeTexImage") :
            /\ tree.nodes[i].image = op.image
            /\ op.image \in DOMAIN images
            /\ op.image \notin DOMAIN pre.images
            /\ tree.active = i
            /\ \A l \in tree.links : l.from_node # i /\ l.to_node # i
       /\ Cardinality(tree.links) = 2
       /\ {<<tree.nodes[l.from_node].type, tree.nodes[l.to_node].type>> :
             l \in tree.links}
          = {<<"ShaderNodeVertexColor", "ShaderNodeEmission">>,
             <<"ShaderNodeEmission", "ShaderNodeOutputMaterial">>}

\* Reached: the bake of a second run, with an image of the first present.
C8_Witness == pc = "bake" /\ runs = 2 /\ DOMAIN pre.images # {}

\* C9: when the bake fails nothing is restored or removed: the temporary
\* colour layer and material are present, the object has one slot more,
\* holding that material, every polygon is on that slot, the engine is
\* CYCLES, the mode is OBJECT and the new image is in the database.
C9_BakeFailureLeavesAll ==
  result = "EXCEPTION" =>
    /\ restore_log = <<>>
    /\ report = <<BAKING_INFO>>
    /\ VCOL_LAYER_NAME \in DOMAIN vertex_colors
    /\ BAKE_MATERIAL_NAME \in DOMAIN materials
    /\ Len(mesh_materials) = Len(pre.mesh_materials) + 1
    /\ mesh_materials[Len(mesh_materials)] = BAKE_MATERIAL_NAME
    /\ \A p \in Polygons : material_index[p] = Len(mesh_materials) - 1
    /\ engine = "CYCLES"
    /\ mode = "OBJECT"
    /\ OneImageAdded

\* Reached: a failed bake of a run started under another engine, with
\* polygons on a slot other than the new one.
C9_Witness ==
  /\ result = "EXCEPTION"
  /\ pre.engine = "BLENDER_EEVEE"
  /\ \E p \in Polygons : pre.bm_material_index[p] # Len(mesh_materials) - 1

\* C10: a run fails in the bake, the user only re-enters edit mode, the
\* next run succeeds: after it every polygon's material index is the slot
\* index the failed run assigned and the engine is CYCLES.
C10_SecondRunKeepsDamage ==
  chain = "second_done" =>
    /\ result = "FINISHED"
    /\ \A p \in Polygons : /\ material_index[p] = failed_run.slot
                           /\ bm_material_index[p] = failed_run.slot
    /\ engine = "CYCLES"

\* Reached: such a sequence whose failed run started under another engine
\* and with a polygon on another slot.
C10_Witness ==
  /\ chain = "second_done"
  /\ failed_run.engine = "BLENDER_EEVEE"
  /\ \E p \in Polygons : failed_run.material_index[p] # failed_run.slot

====
